---- MODULE Spec2Model ----
(***************************************************************************)
(* A model of rdd's `Dd` (src/src/dd.rs): a builder over the external `dd` *)
(* binary.  The configuration is the struct's five fields; the setters     *)
(* mutate it; spawn() runs the pre-flight check() (one `--version`         *)
(* process), then set_args() and the main process.  The external binary is *)
(* the environment: what a launched process does is drawn from finite sets.*)
(*                                                                         *)
(* Strings and captured output are sequences of bytes (0..255), as Rust's  *)
(* String / Vec<u8> are, so that UTF-8 decoding, whitespace tokenising,    *)
(* splitting on '.', u16 parsing and integer formatting are computed.      *)
(***************************************************************************)
EXTENDS Integers, Sequences, FiniteSets

\* ------------------------------------------------------------- bytes ----

\* The printable ASCII characters in code order: 32 (space) to 95, and 97 to
\* 126 (96, the grave accent, cannot be written in a string here).
PrintableLow ==
  << " ", "!", "\"", "#", "$", "%", "&", "'", "(", ")", "*", "+", ",", "-",
     ".", "/", "0", "1", "2", "3", "4", "5", "6", "7", "8", "9", ":", ";",
     "<", "=", ">", "?", "@", "A", "B", "C", "D", "E", "F", "G", "H", "I",
     "J", "K", "L", "M", "N", "O", "P", "Q", "R", "S", "T", "U", "V", "W",
     "X", "Y", "Z", "[", "\\", "]", "^", "_" >>

PrintableHigh ==
  << "a", "b", "c", "d", "e", "f", "g", "h", "i", "j", "k", "l", "m", "n",
     "o", "p", "q", "r", "s", "t", "u", "v", "w", "x", "y", "z", "{", "|",
     "}", "~" >>

\* The byte of one printable ASCII character.
Byte(c) ==
  IF \E i \in 1..Len(PrintableLow) : PrintableLow[i] = c
  THEN 31 + (CHOOSE i \in 1..Len(PrintableLow) : PrintableLow[i] = c)
  ELSE 96 + (CHOOSE i \in 1..Len(PrintableHigh) : PrintableHigh[i] = c)

\* A string literal, written as a tuple of characters, as its bytes.
Str(cs) == [i \in 1..Len(cs) |-> Byte(cs[i])]

\* Option<T>: None is the empty sequence, Some(x) the one-element sequence.
None == << >>
Some(x) == << x >>

\* ------------------------------------------------- String::from_utf8 ----

InRange(bs, j, lo, hi) == j <= Len(bs) /\ bs[j] >= lo /\ bs[j] <= hi

Continuation(bs, j) == InRange(bs, j, 128, 191)

\* The length of the well-formed UTF-8 sequence that starts at bs[i], or 0.
Utf8CharLen(bs, i) ==
  LET b == bs[i] IN
  CASE b < 128 -> 1
    [] b >= 194 /\ b <= 223 ->
         IF Continuation(bs, i + 1) THEN 2 ELSE 0
    [] b = 224 ->
         IF InRange(bs, i + 1, 160, 191) /\ Continuation(bs, i + 2)
         THEN 3 ELSE 0
    [] (b >= 225 /\ b <= 236) \/ b = 238 \/ b = 239 ->
         IF Continuation(bs, i + 1) /\ Continuation(bs, i + 2) THEN 3 ELSE 0
    [] b = 237 ->
         IF InRange(bs, i + 1, 128, 159) /\ Continuation(bs, i + 2)
         THEN 3 ELSE 0
    [] b = 240 ->
         IF InRange(bs, i + 1, 144, 191) /\ Continuation(bs, i + 2)
            /\ Continuation(bs, i + 3)
         THEN 4 ELSE 0
    [] b >= 241 /\ b <= 243 ->
         IF Continuation(bs, i + 1) /\ Continuation(bs, i + 2)
            /\ Continuation(bs, i + 3)
         THEN 4 ELSE 0
    [] b = 244 ->
         IF InRange(bs, i + 1, 128, 143) /\ Continuation(bs, i + 2)
            /\ Continuation(bs, i + 3)
         THEN 4 ELSE 0
    [] OTHER -> 0

RECURSIVE Utf8ValidFrom(_, _)
Utf8ValidFrom(bs, i) ==
  IF i > Len(bs) THEN TRUE
  ELSE LET n == Utf8CharLen(bs, i) IN
       IF n = 0 THEN FALSE ELSE Utf8ValidFrom(bs, i + n)

\* String::from_utf8(bytes): Ok(the same bytes as a String) or Err.
from_utf8(bs) ==
  IF Utf8ValidFrom(bs, 1) THEN [ok |-> TRUE, s |-> bs]
  ELSE [ok |-> FALSE, s |-> << >>]

\* ------------------------------------------------ split_whitespace ------

\* The byte length of the White_Space character that starts at s[i], or 0
\* (char::is_whitespace: U+0009..U+000D, U+0020, U+0085, U+00A0, U+1680,
\* U+2000..U+200A, U+2028, U+2029, U+202F, U+205F, U+3000).
is_whitespace_len(s, i) ==
  LET b == s[i] IN
  CASE b = 32 \/ (b >= 9 /\ b <= 13) -> 1
    [] b = 194 /\ (InRange(s, i + 1, 133, 133) \/ InRange(s, i + 1, 160, 160))
         -> 2
    [] b = 225 /\ InRange(s, i + 1, 154, 154) /\ InRange(s, i + 2, 128, 128)
         -> 3
    [] b = 226 /\ InRange(s, i + 1, 128, 128)
         /\ (InRange(s, i + 2, 128, 138) \/ InRange(s, i + 2, 168, 169)
             \/ InRange(s, i + 2, 175, 175))
         -> 3
    [] b = 226 /\ InRange(s, i + 1, 129, 129) /\ InRange(s, i + 2, 159, 159)
         -> 3
    [] b = 227 /\ InRange(s, i + 1, 128, 128) /\ InRange(s, i + 2, 128, 128)
         -> 3
    [] OTHER -> 0

RECURSIVE split_whitespace_from(_, _, _, _)
split_whitespace_from(s, i, cur, acc) ==
  LET flushed == IF cur = << >> THEN acc ELSE Append(acc, cur) IN
  IF i > Len(s) THEN flushed
  ELSE LET w == is_whitespace_len(s, i) IN
       IF w > 0 THEN split_whitespace_from(s, i + w, << >>, flushed)
       ELSE split_whitespace_from(s, i + 1, Append(cur, s[i]), acc)

\* str::split_whitespace: the non-empty maximal runs of non-whitespace.
split_whitespace(s) == split_whitespace_from(s, 1, << >>, << >>)

\* Iterator::nth(n), zero-based.
nth(items, n) == IF Len(items) > n THEN Some(items[n + 1]) ELSE None

\* ------------------------------------------------------- split('.') -----

RECURSIVE split_from(_, _, _, _, _)
split_from(s, sep, i, cur, acc) ==
  IF i > Len(s) THEN Append(acc, cur)
  ELSE IF s[i] = sep THEN split_from(s, sep, i + 1, << >>, Append(acc, cur))
  ELSE split_from(s, sep, i + 1, Append(cur, s[i]), acc)

\* str::split(sep).collect(): every part, empty ones included.
split(s, sep) == split_from(s, sep, 1, << >>, << >>)

\* ---------------------------------------------------- parse::<u16>() ----

U16Max == 65535

\* Digits that wrap around at 2^16 where the code reports an overflow.
RECURSIVE DigitsValueWrapping(_, _, _)
DigitsValueWrapping(ds, i, acc) ==
  IF i > Len(ds) THEN acc
  ELSE IF ds[i] < 48 \/ ds[i] > 57 THEN -1
  ELSE DigitsValueWrapping(ds, i + 1, (acc * 10 + (ds[i] - 48)) % 65536)

\* The value of the decimal digits ds on top of acc, or -1 on a byte that is
\* no ASCII digit or on a value above u16::MAX.
RECURSIVE DigitsValue(_, _, _)
DigitsValue(ds, i, acc) ==
  IF i > Len(ds) THEN acc
  ELSE IF ds[i] < 48 \/ ds[i] > 57 THEN -1
  ELSE LET v == acc * 10 + (ds[i] - 48) IN
       IF v > U16Max THEN -1 ELSE DigitsValue(ds, i + 1, v)

\* str::parse::<u16>(): an optional '+', then one or more ASCII digits; a
\* '-' is no digit for an unsigned type.
parse_u16(s) ==
  LET digits == IF s # << >> /\ s[1] = 43 THEN Tail(s) ELSE s
      v == DigitsValue(digits, 1, 0)
  IN  IF s = << >> \/ digits = << >> \/ v < 0
      THEN [ok |-> FALSE, v |-> 0]
      ELSE [ok |-> TRUE, v |-> v]

\* Result::unwrap_or(default).
unwrap_or(r, default) == IF r.ok THEN r.v ELSE default

\* A comparison that takes either part being less for less.
TupleLtAny(a, b) == a[1] < b[1] \/ a[2] < b[2]

\* `version < min_version` on (u16, u16): the derived lexicographic order.
TupleLt(a, b) == a[1] < b[1] \/ (a[1] = b[1] /\ a[2] < b[2])

\* ------------------------------------------------- u64::to_string() -----

RECURSIVE to_string(_)
to_string(n) ==
  IF n < 10 THEN << 48 + n >>
  ELSE Append(to_string(n \div 10), 48 + (n % 10))

\* format!("{key}={value}")
format(key, value) == key \o << 61 >> \o value

\* ------------------------------------------------------------ errors ----

\* std::io::Error: its kind and its message.
IoError(kind, msg) == [kind |-> kind, msg |-> msg]

NoIoError == IoError("", << >>)

\* A DdError: the variant and, for CantRun, the io::Error it carries.
DdError(kind, io) == [kind |-> kind, io |-> io]

NoDdError == DdError("", NoIoError)

ErrorKinds ==
  { "CantRun", "Missing", "InvalidUTF8", "InvalidOutput", "OldVersion",
    "NoInput" }

\* Result<T, DdError>; NoResult stands for "no spawn() has returned".
Ok(text) == [tag |-> "Ok", text |-> text, err |-> NoDdError]
Err(e) == [tag |-> "Err", text |-> << >>, err |-> e]
NoResult == [tag |-> "None", text |-> << >>, err |-> NoDdError]

\* ----------------------------------------------- the external process ----

\* What Command::output() gives: io::Result<Output>.
Exited(success, stdout, stderr) ==
  [launched |-> TRUE, error |-> "", success |-> success,
   stdout |-> stdout, stderr |-> stderr]

LaunchFailed(kind) ==
  [launched |-> FALSE, error |-> kind, success |-> FALSE,
   stdout |-> << >>, stderr |-> << >>]

\* --------------------------------------------------------- Dd::check ----

VersionFlag == Str(<< "-", "-", "v", "e", "r", "s", "i", "o", "n" >>)

\* `Err(_) => Err(DdError::Missing)`
check_launch_error(e) == Err(DdError("Missing", NoIoError))

\* The branch with the placeholder of spawn() in place of the `?`.
check_not_success_placeholder(stderr) ==
  LET decoded == from_utf8(stderr) IN
  Err(DdError("CantRun",
              IoError("Other",
                      IF decoded.ok THEN decoded.s
                      ELSE Str(<< "u", "n", "a", "b", "l", "e" >>))))

\* The branch `!output.status.success()`: stderr decoded with `?`.
check_not_success(stderr) ==
  LET decoded == from_utf8(stderr) IN
  IF ~decoded.ok THEN Err(DdError("InvalidUTF8", NoIoError))
  ELSE Err(DdError("CantRun", IoError("Other", decoded.s)))

\* A format test that lets more than two parts through.
version_parts_at_least(version_parts) == Len(version_parts) >= 2

\* `version_parts.len() != 2` is the invalid format.
version_parts_ok(version_parts) == Len(version_parts) = 2

\* The third whitespace token split on '.': Some(parts), or None where the
\* code returns InvalidOutput.
version_parts_of(version_str) ==
  LET token == nth(split_whitespace(version_str), 2) IN
  IF token = None THEN None
  ELSE LET version_parts == split(token[1], 46) IN
       IF version_parts_ok(version_parts) THEN Some(version_parts) ELSE None

\* The local `version`: both parts parsed as u16, 0 on a parse failure.
version_of(version_parts) ==
  << unwrap_or(parse_u16(version_parts[1]), 0),
     unwrap_or(parse_u16(version_parts[2]), 0) >>

\* The local `version` of check() on the process outcome o, when the code
\* gets as far as computing it.
check_version(o) ==
  IF ~o.launched \/ ~o.success THEN None
  ELSE LET stdout == from_utf8(o.stdout) IN
       IF ~stdout.ok THEN None
       ELSE LET parts == version_parts_of(stdout.s) IN
            IF parts = None THEN None ELSE Some(version_of(parts[1]))

\* Dd::check on the outcome o of the `--version` process.
check(minv, o) ==
  IF ~o.launched THEN check_launch_error(o.error)
  ELSE IF ~o.success THEN check_not_success(o.stderr)
  ELSE LET stdout == from_utf8(o.stdout) IN
       IF ~stdout.ok THEN Err(DdError("InvalidUTF8", NoIoError))
       ELSE LET parts == version_parts_of(stdout.s) IN
            IF parts = None THEN Err(DdError("InvalidOutput", NoIoError))
            ELSE IF minv # None /\ TupleLt(version_of(parts[1]), minv[1])
                 THEN Err(DdError("OldVersion", NoIoError))
                 ELSE Ok(<< >>)

\* ------------------------------------------------- Dd::arg, set_args ----

\* arg() that puts the new option first.
arg_front(opts, key, value) == << format(key, value) >> \o opts

\* self.options.push(format!("{key}={value}"))
arg(opts, key, value) == Append(opts, format(key, value))

IfKey == Str(<< "i", "f" >>)
OfKey == Str(<< "o", "f" >>)

\* set_args() that takes a missing input for no `if=` argument.
set_args_unchecked(inp, outp, opts) ==
  [ok |-> TRUE,
   args |-> (IF inp # None THEN << format(IfKey, inp[1]) >> ELSE << >>)
            \o (IF outp # None THEN << format(OfKey, outp[1]) >> ELSE << >>)
            \o opts]

\* set_args() that adds the options before the output.
set_args_options_first(inp, outp, opts) ==
  IF inp = None THEN [ok |-> FALSE, args |-> << >>]
  ELSE [ok |-> TRUE,
        args |-> << format(IfKey, inp[1]) >> \o opts
                 \o (IF outp # None THEN << format(OfKey, outp[1]) >>
                     ELSE << >>)]

\* Dd::set_args: NoInput, or the arguments added to the command.
set_args(inp, outp, opts) ==
  IF inp = None THEN [ok |-> FALSE, args |-> << >>]
  ELSE [ok |-> TRUE,
        args |-> << format(IfKey, inp[1]) >>
                 \o (IF outp # None THEN << format(OfKey, outp[1]) >>
                     ELSE << >>)
                 \o opts]

\* --------------------------------------------------------- Dd::spawn ----

\* spawn() that drops check()'s result.
check_ignored(r) == TRUE

\* `self.check()?`: spawn goes on only when check returned Ok.
check_passed(r) == r.tag = "Ok"

Placeholder ==
  Str(<< "u", "n", "a", "b", "l", "e", " ", "t", "o", " ", "g", "e", "t",
         " ", "s", "t", "d", "e", "r", "r", " ", "f", "r", "o", "m", " ",
         "'", "d", "d", "'" >>)

\* String::from_utf8(output.stderr).unwrap_or(placeholder)
stderr_or_placeholder(stderr) ==
  LET decoded == from_utf8(stderr) IN
  IF decoded.ok THEN decoded.s ELSE Placeholder

\* A launch error of the main process reported as in check().
spawn_launch_error_missing(e) == Err(DdError("Missing", NoIoError))

\* `Err(e) => Err(DdError::CantRun(e))`
spawn_launch_error(e) == Err(DdError("CantRun", IoError(e, << >>)))

\* A match that does not look at the exit status.
spawn_result_any_status(o) ==
  IF o.launched
  THEN LET stdout == from_utf8(o.stdout) IN
       IF stdout.ok THEN Ok(stdout.s)
       ELSE Err(DdError("InvalidUTF8", NoIoError))
  ELSE Err(DdError("CantRun", IoError(o.error, << >>)))

\* The match on the main process's outcome.
spawn_result(o) ==
  IF o.launched /\ o.success
  THEN LET stdout == from_utf8(o.stdout) IN
       IF stdout.ok THEN Ok(stdout.s)
       ELSE Err(DdError("InvalidUTF8", NoIoError))
  ELSE IF o.launched
  THEN Err(DdError("CantRun",
                   IoError("Other", stderr_or_placeholder(o.stderr))))
  ELSE spawn_launch_error(o.error)

\* ------------------------------------------------------------- state ----

VARIABLES
  binary,        \* Dd.binary
  min_version,   \* Dd.min_version: Option<(u16, u16)>
  input,         \* Dd.input: Option<String>
  output,        \* Dd.output: Option<String>
  options,       \* Dd.options: Vec<String>
  pc,            \* "idle", or "checked": inside spawn(), check() has passed
  history,       \* the calls that built the instance: new, then the setters
  launched,      \* the processes launched by the current or last spawn()
  check_cmd,     \* check()'s local `cmd`: the `--version` process's outcome
  checked,       \* what check() returned
  version,       \* check()'s local `version`, when it was computed
  spawn_output,  \* spawn()'s local `output`: the main process's outcome
  ret            \* what the spawn() that has just returned gave

config == << binary, min_version, input, output, options >>

call == << launched, check_cmd, checked, version, spawn_output, ret >>

vars == << binary, min_version, input, output, options, pc, history,
           launched, check_cmd, checked, version, spawn_output, ret >>

\* The caller's values for new().
Binary_dd == Str(<< "d", "d" >>)
Binaries == { Binary_dd, Str(<< ".", "/", "d", "d" >>) }

\* Dd::new(binary)
new(b) ==
  /\ binary = b
  /\ input = None
  /\ output = None
  /\ min_version = None
  /\ options = << >>

\* The state after Dd::new(b), for some b of binaries.
Constructed(binaries) ==
  /\ \E b \in binaries :
       new(b) /\ history = << [op |-> "new", arg |-> b] >>
  /\ pc = "idle"
  /\ launched = << >>
  /\ check_cmd = None
  /\ checked = NoResult
  /\ version = None
  /\ spawn_output = None
  /\ ret = NoResult

\* A setter returns the instance: what the last spawn() left is gone.
Returned(name, a) ==
  /\ history' = Append(history, [op |-> name, arg |-> a])
  /\ launched' = << >>
  /\ check_cmd' = None
  /\ checked' = NoResult
  /\ version' = None
  /\ spawn_output' = None
  /\ ret' = NoResult

\* ----------------------------------------------------------- setters ----

\* Dd::min_version
min_version_setter(v) ==
  /\ pc = "idle"
  /\ min_version' = Some(v)
  /\ Returned("min_version", v)
  /\ UNCHANGED << binary, input, output, options, pc >>

\* Dd::input
input_setter(path) ==
  /\ pc = "idle"
  /\ input' = Some(path)
  /\ Returned("input", path)
  /\ UNCHANGED << binary, min_version, output, options, pc >>

\* Dd::output
output_setter(path) ==
  /\ pc = "idle"
  /\ output' = Some(path)
  /\ Returned("output", path)
  /\ UNCHANGED << binary, min_version, input, options, pc >>

\* An option setter: self.arg(key, value); self
option_setter(name, key, value, a) ==
  /\ pc = "idle"
  /\ options' = arg(options, key, value)
  /\ Returned(name, a)
  /\ UNCHANGED << binary, min_version, input, output, pc >>

\* The keys of the option setters.
Key_bs == Str(<< "b", "s" >>)
Key_cbs == Str(<< "c", "b", "s" >>)
Key_count == Str(<< "c", "o", "u", "n", "t" >>)
Key_seek == Str(<< "s", "e", "e", "k" >>)
Key_skip == Str(<< "s", "k", "i", "p" >>)
Key_status == Str(<< "s", "t", "a", "t", "u", "s" >>)
Key_conv == Str(<< "c", "o", "n", "v" >>)
Key_ibs == Str(<< "i", "b", "s" >>)
Key_iflag == Str(<< "i", "f", "l", "a", "g" >>)
Key_obs == Str(<< "o", "b", "s" >>)
Key_oflag == Str(<< "o", "f", "l", "a", "g" >>)

bs(value) == option_setter("bs", Key_bs, value, value)

cbs(value) == option_setter("cbs", Key_cbs, value, value)

count(value) ==
  option_setter("count", Key_count,
                to_string(value), << value >>)

seek(value) ==
  option_setter("seek", Key_seek,
                to_string(value), << value >>)

skip(value) ==
  option_setter("skip", Key_skip,
                to_string(value), << value >>)

status(value) ==
  option_setter("status", Key_status,
                value, value)

conv(value) ==
  option_setter("conv", Key_conv, value, value)

ibs(value) == option_setter("ibs", Key_ibs, value, value)

iflag(value) ==
  option_setter("iflag", Key_iflag, value, value)

obs(value) == option_setter("obs", Key_obs, value, value)

oflag(value) ==
  option_setter("oflag", Key_oflag, value, value)

\* ------------------------------------------------------------- spawn ----

\* spawn(), first half: check() launches `binary --version`, the process
\* does o, and a failed check is returned as it is.
spawn_check(o) ==
  LET r == check(min_version, o) IN
  /\ pc = "idle"
  /\ launched' = << [site |-> "check", program |-> binary,
                     args |-> << VersionFlag >>] >>
  /\ check_cmd' = Some(o)
  /\ checked' = r
  /\ version' = check_version(o)
  /\ spawn_output' = None
  /\ IF check_passed(r)
     THEN pc' = "checked" /\ ret' = NoResult
     ELSE pc' = "idle" /\ ret' = r
  /\ UNCHANGED << config, history >>

\* spawn(), second half: set_args(), then the main process, which does o.
spawn_run(o) ==
  /\ pc = "checked"
  /\ pc' = "idle"
  /\ LET a == set_args(input, output, options) IN
     IF ~a.ok
     THEN /\ ret' = Err(DdError("NoInput", NoIoError))
          /\ UNCHANGED << launched, spawn_output >>
     ELSE /\ launched' = Append(launched, [site |-> "spawn",
                                           program |-> binary,
                                           args |-> a.args])
          /\ spawn_output' = Some(o)
          /\ ret' = spawn_result(o)
  /\ UNCHANGED << config, history, check_cmd, checked, version >>

\* ------------------------------------------------------- environment ----

Text_a == Str(<< "a" >>)
Text_b == Str(<< "b" >>)
Text_4M == Str(<< "4", "M" >>)
Text_1M == Str(<< "1", "M" >>)
Text_none == Str(<< "n", "o", "n", "e" >>)
Text_noerror == Str(<< "n", "o", "e", "r", "r", "o", "r" >>)
Text_fullblock == Str(<< "f", "u", "l", "l", "b", "l", "o", "c", "k" >>)
Text_append == Str(<< "a", "p", "p", "e", "n", "d" >>)
Text_64K == Str(<< "6", "4", "K" >>)
Text_512 == Str(<< "5", "1", "2" >>)

\* "dd (stub) 8.32"
Version_8_32 ==
  Str(<< "d", "d", " ", "(", "s", "t", "u", "b", ")", " ", "8", ".", "3",
         "2" >>)

\* "dd (x) "
DdX == Str(<< "d", "d", " ", "(", "x", ")", " " >>)

\* Bytes that are no UTF-8: a lone 0xFF after an ASCII letter.
NotUtf8 == << 100, 255 >>

Paths == { Text_a, Text_b }
Sizes == { Text_4M, Text_1M }
MinVersions == { << 8, 32 >>, << 8, 33 >> }

\* What the `--version` process may do.
CheckOutcomes ==
  { LaunchFailed("NotFound"),
    LaunchFailed("PermissionDenied"),
    Exited(FALSE, Version_8_32, Str(<< "n", "o" >>)),
    Exited(FALSE, << >>, NotUtf8),
    Exited(TRUE, NotUtf8, << >>),
    Exited(TRUE, Version_8_32, NotUtf8),
    Exited(TRUE, Str(<< "d", "d", " ", "8", ".", "3", "2" >>), << >>) }

\* What the main process may do.
SpawnOutcomes ==
  { LaunchFailed("NotFound"),
    Exited(FALSE, Text_a, Str(<< "e", "r", "r" >>)),
    Exited(FALSE, Text_a, NotUtf8),
    Exited(TRUE, Str(<< "o", "u", "t", " ", "1" >>) \o << 10 >>, NotUtf8),
    Exited(TRUE, << >>, Str(<< "1", "+", "0" >>)),
    Exited(TRUE, NotUtf8, << >>) }

MaxCalls == 2

\* The bound on the calls after new().
MayCall == Len(history) <= MaxCalls

\* Every operation, on a few values each, against every process outcome.
Next ==
  \/ \E v \in MinVersions : MayCall /\ min_version_setter(v)
  \/ \E path \in Paths : MayCall /\ input_setter(path)
  \/ \E path \in Paths : MayCall /\ output_setter(path)
  \/ \E value \in Sizes : MayCall /\ bs(value)
  \/ MayCall /\ cbs(Text_512)
  \/ \E value \in { 1, 5 } : MayCall /\ count(value)
  \/ MayCall /\ seek(0)
  \/ MayCall /\ skip(10)
  \/ MayCall /\ status(Text_none)
  \/ MayCall /\ conv(Text_noerror)
  \/ MayCall /\ ibs(Text_64K)
  \/ MayCall /\ iflag(Text_fullblock)
  \/ MayCall /\ obs(Text_64K)
  \/ MayCall /\ oflag(Text_append)
  \/ \E o \in CheckOutcomes : spawn_check(o)
  \/ \E o \in SpawnOutcomes : spawn_run(o)

Init == Constructed(Binaries)

Spec == Init /\ [][Next]_vars

\* ------------------------------------------- the version texts at large ----

\* Version texts for the parsing in check(): well-formed, short of tokens,
\* short or long of parts, and parts that are no u16.
VersionTexts ==
  { Version_8_32,
    \* "dd (coreutils) 9.1\nCopyright (C) 2022"
    Str(<< "d", "d", " ", "(", "c", "o", "r", "e", "u", "t", "i", "l", "s",
           ")", " ", "9", ".", "1" >>) \o << 10 >>
      \o Str(<< "C", "o", "p", "y", "r", "i", "g", "h", "t", " ", "(", "C",
                ")", " ", "2", "0", "2", "2" >>),
    \* "\t dd\u{a0}(x)\n7.99 ": other whitespace, also around the text
    << 9, 32 >> \o Str(<< "d", "d" >>) \o << 194, 160 >>
      \o Str(<< "(", "x", ")" >>) \o << 10 >>
      \o Str(<< "7", ".", "9", "9", " " >>),
    DdX \o Str(<< "a", "b", "c", ".", "d", "e", "f" >>),
    DdX \o Str(<< "6", "5", "5", "3", "5", ".", "6", "5", "5", "3", "6" >>),
    DdX \o Str(<< "6", "5", "5", "3", "7", ".", "7", "0", "0", "0", "0" >>),
    DdX \o Str(<< "-", "1", ".", "5" >>),
    DdX \o Str(<< "+", "8", ".", "+" >>),
    DdX \o Str(<< "0", "0", "9", ".", "0", "0" >>),
    DdX \o Str(<< "8", "." >>),
    DdX \o Str(<< "." >>),
    \* "dd (x) ٨.٣٢": digits that are not ASCII
    DdX \o << 217, 168, 46, 217, 163, 217, 162 >>,
    DdX \o Str(<< "8" >>),
    DdX \o Str(<< "8", ".", "3", ".", "2" >>),
    DdX \o Str(<< "8", ".", "3", "2", "." >>),
    DdX \o Str(<< "8", ",", "3", "2" >>),
    Str(<< "d", "d", " ", "8", ".", "3", "2" >>),
    Str(<< "d", "d", "-", "8", ".", "3", "2" >>),
    Str(<< " " >>),
    << >> }

MinVersionsAtLarge ==
  { << 0, 0 >>, << 0, 1 >>, << 7, 99 >>, << 8, 32 >>, << 8, 33 >>,
    << 9, 0 >> }

MaxCheckCalls == 2

MayCallCheck == Len(history) <= MaxCheckCalls

\* The pre-flight check at large: every minimum against every version text.
NextCheck ==
  \/ \E v \in MinVersionsAtLarge : MayCallCheck /\ min_version_setter(v)
  \/ MayCallCheck /\ input_setter(Text_a)
  \/ \E text \in VersionTexts : spawn_check(Exited(TRUE, text, << >>))
  \/ spawn_run(Exited(TRUE, Text_b, << >>))

InitCheck == Constructed({ Binary_dd })

SpecCheck == InitCheck /\ [][NextCheck]_vars

\* -------------------------------------------------- the builder at large ----

MaxArgCalls == 4

MayCallArgs == Len(history) <= MaxArgCalls

\* The argument list at large: longer chains of the setters of the four
\* kinds of argument, against a binary that runs.
NextArgs ==
  \/ \E path \in Paths : MayCallArgs /\ input_setter(path)
  \/ MayCallArgs /\ output_setter(Text_b)
  \/ \E value \in Sizes : MayCallArgs /\ bs(value)
  \/ MayCallArgs /\ count(5)
  \/ spawn_check(Exited(TRUE, Version_8_32, << >>))
  \/ spawn_run(Exited(TRUE, Text_b, << >>))

InitArgs == Constructed({ Binary_dd })

SpecArgs == InitArgs /\ [][NextArgs]_vars

\* ------------------------------------------------------------ claims ----

\* spawn() has returned, and no setter was called since.
SpawnReturned == pc = "idle" /\ ret.tag # "None"

\* The current or last spawn() launched the main process.
MainLaunched == \E i \in 1..Len(launched) : launched[i].site = "spawn"

NoInputError == Err(DdError("NoInput", NoIoError))

\* C1, as stated: on a configuration without input, spawn() fails with
\* NoInput whatever the binary does when queried, and launches no main
\* process.
C1_NoInputAlwaysNoInput ==
  (SpawnReturned /\ input = None) => (ret = NoInputError /\ ~MainLaunched)

\* C1, amended: on a configuration without input, spawn() fails and launches
\* no main process; it fails with the error of the pre-flight check when the
\* check fails, and with NoInput when the check passes.
C1_NoInputFails ==
  (SpawnReturned /\ input = None) =>
     /\ ret.tag = "Err"
     /\ ~MainLaunched
     /\ spawn_output = None
     /\ checked.tag \in { "Ok", "Err" }
     /\ checked.tag = "Ok" => ret = NoInputError
     /\ checked.tag = "Err" => ret = checked /\ ret # NoInputError

\* C1's case: no input, but an output and an option; the check passed and
\* spawn() returned NoInput.
C1_Witness ==
  /\ SpawnReturned
  /\ input = None
  /\ output # None
  /\ Len(options) = 1
  /\ checked.tag = "Ok"
  /\ ret = NoInputError

\* C2: one spawn() launches the version query, first and once, and then at
\* most one main process, only after the check of that call returned Ok; a
\* failed check is returned unchanged, with nothing launched after it.
C2_LaunchOrder ==
  /\ Len(launched) <= 2
  /\ Len(launched) >= 1 =>
       /\ launched[1] = [site |-> "check", program |-> binary,
                         args |-> << VersionFlag >>]
       /\ checked.tag \in { "Ok", "Err" }
  /\ Len(launched) = 2 =>
       /\ launched[2].site = "spawn"
       /\ launched[2].program = binary
       /\ checked.tag = "Ok"
  /\ pc = "checked" => Len(launched) = 1 /\ checked.tag = "Ok"
  /\ SpawnReturned => Len(launched) >= 1
  /\ (SpawnReturned /\ checked.tag = "Err") =>
       ret = checked /\ Len(launched) = 1

\* C2's case: a spawn() that launched both processes and returned.
C2_Witness == SpawnReturned /\ Len(launched) = 2 /\ checked.tag = "Ok"

\* The argument of the last call of setter op in the history h, if any.
LastArg(h, op) ==
  LET calls == { i \in 1..Len(h) : h[i].op = op } IN
  IF calls = { } THEN None
  ELSE Some(h[CHOOSE i \in calls : \A j \in calls : j <= i].arg)

\* The keys of section 6 of the specification, by option setter.
OptionKey ==
  [ bs |-> Str(<< "b", "s" >>), ibs |-> Str(<< "i", "b", "s" >>),
    obs |-> Str(<< "o", "b", "s" >>), cbs |-> Str(<< "c", "b", "s" >>),
    count |-> Str(<< "c", "o", "u", "n", "t" >>),
    seek |-> Str(<< "s", "e", "e", "k" >>),
    skip |-> Str(<< "s", "k", "i", "p" >>),
    status |-> Str(<< "s", "t", "a", "t", "u", "s" >>),
    conv |-> Str(<< "c", "o", "n", "v" >>),
    iflag |-> Str(<< "i", "f", "l", "a", "g" >>),
    oflag |-> Str(<< "o", "f", "l", "a", "g" >>) ]

NumericSetters == { "count", "seek", "skip" }

\* The `key=value` of one option-setter call.
OptionString(c) ==
  OptionKey[c.op] \o << 61 >>
    \o (IF c.op \in NumericSetters THEN to_string(c.arg[1]) ELSE c.arg)

\* One `key=value` per option-setter call of the history h, in call order.
RECURSIVE OptionStrings(_)
OptionStrings(h) ==
  IF h = << >> THEN << >>
  ELSE LET c == h[Len(h)]
           before == OptionStrings(SubSeq(h, 1, Len(h) - 1))
       IN  IF c.op \in DOMAIN OptionKey
           THEN Append(before, OptionString(c)) ELSE before

\* The argument list the setter history h asks for.
ArgsOf(h) ==
  << Str(<< "i", "f", "=" >>) \o LastArg(h, "input")[1] >>
    \o (IF LastArg(h, "output") = None THEN << >>
        ELSE << Str(<< "o", "f", "=" >>) \o LastArg(h, "output")[1] >>)
    \o OptionStrings(h)

\* ["if=a", "of=b", "bs=4M", "count=5"]
ExampleArgs ==
  << Str(<< "i", "f", "=", "a" >>), Str(<< "o", "f", "=", "b" >>),
     Str(<< "b", "s", "=", "4", "M" >>),
     Str(<< "c", "o", "u", "n", "t", "=", "5" >>) >>

\* new("dd").input("a").output("b").bs("4M").count(5)
ExampleCalls ==
  << [op |-> "new", arg |-> Binary_dd], [op |-> "input", arg |-> Text_a],
     [op |-> "output", arg |-> Text_b], [op |-> "bs", arg |-> Text_4M],
     [op |-> "count", arg |-> << 5 >>] >>

\* new("dd").bs("4M").count(5).output("b").input("a")
ExampleCallsOptionsFirst ==
  << [op |-> "new", arg |-> Binary_dd], [op |-> "bs", arg |-> Text_4M],
     [op |-> "count", arg |-> << 5 >>], [op |-> "output", arg |-> Text_b],
     [op |-> "input", arg |-> Text_a] >>

\* C3: the main process is launched with `if=<input>`, then `of=<output>`
\* if and only if an output was set, then one `key=value` per option-setter
\* call in call order, and nothing else; the example chain gives
\* ["if=a", "of=b", "bs=4M", "count=5"], also with the options set first.
C3_ArgumentList ==
  MainLaunched =>
    /\ input # None
    /\ launched[2].args =
         << Str(<< "i", "f", "=" >>) \o input[1] >>
           \o (IF output = None THEN << >>
               ELSE << Str(<< "o", "f", "=" >>) \o output[1] >>)
           \o options
    /\ launched[2].args = ArgsOf(history)
    /\ history \in { ExampleCalls, ExampleCallsOptionsFirst } =>
         launched[2].args = ExampleArgs

\* C3's case: the example chain, spawned.
C3_Witness ==
  /\ SpawnReturned
  /\ history = ExampleCalls
  /\ MainLaunched
  /\ launched[2].args = ExampleArgs

\* C4: the configuration is a function of the setter history: each of input,
\* output and min_version holds the argument of the last call of its setter
\* (None without one), options holds one `key=value` per option-setter call
\* in call order, binary is new()'s argument; spawn() changes none of them.
C4_ConfigFromHistory ==
  /\ history[1].op = "new"
  /\ binary = history[1].arg
  /\ input = LastArg(history, "input")
  /\ output = LastArg(history, "output")
  /\ min_version = LastArg(history, "min_version")
  /\ options = OptionStrings(history)

\* C4's case: bs called twice with two values, then a spawn().
C4_Witness ==
  /\ SpawnReturned
  /\ options = << Str(<< "b", "s", "=", "4", "M" >>),
                  Str(<< "b", "s", "=", "1", "M" >>) >>

\* The `--version` process exited with success and valid UTF-8 output.
QueryDecoded ==
  /\ check_cmd # None
  /\ check_cmd[1].launched
  /\ check_cmd[1].success
  /\ Utf8ValidFrom(check_cmd[1].stdout, 1)

\* The whitespace-delimited tokens of the `--version` output.
QueryTokens == split_whitespace(check_cmd[1].stdout)

OldVersionError == Err(DdError("OldVersion", NoIoError))

InvalidOutputError == Err(DdError("InvalidOutput", NoIoError))

\* C5: with a parsed version, check() fails with OldVersion if and only if a
\* minimum is set and the version is below it, major first and minor on
\* equal majors; without a minimum, or without a parsed version, never.
\* "dd (stub) 8.32" is (8, 32): too old for (8, 33), not for (8, 32) or less.
C5_OldVersion ==
  /\ checked = OldVersionError => (version # None /\ min_version # None)
  /\ (QueryDecoded /\ version # None) =>
       /\ checked = OldVersionError <=>
            /\ min_version # None
            /\ \/ version[1][1] < min_version[1][1]
               \/ /\ version[1][1] = min_version[1][1]
                  /\ version[1][2] < min_version[1][2]
       /\ checked # OldVersionError => checked = Ok(<< >>)
  /\ (QueryDecoded /\ check_cmd[1].stdout = Version_8_32) =>
       /\ version = Some(<< 8, 32 >>)
       /\ min_version = Some(<< 8, 33 >>) => checked = OldVersionError
       /\ min_version \in { None, Some(<< 8, 32 >>), Some(<< 7, 99 >>),
                            Some(<< 0, 0 >>) } => checked = Ok(<< >>)

\* C5's case: "dd (stub) 8.32" against the minimum (8, 33).
C5_Witness ==
  /\ QueryDecoded
  /\ check_cmd[1].stdout = Version_8_32
  /\ min_version = Some(<< 8, 33 >>)
  /\ ret = OldVersionError

\* The number of '.' in the token.
DotCount(token) == Cardinality({ k \in 1..Len(token) : token[k] = 46 })

\* One or more ASCII digits.
IsNumeric(s) == s # << >> /\ \A k \in 1..Len(s) : s[k] >= 48 /\ s[k] <= 57

\* "N.N": two numeric parts with a dot between them.
IsNDotN(token) ==
  \E k \in 1..Len(token) :
    /\ token[k] = 46
    /\ IsNumeric(SubSeq(token, 1, k - 1))
    /\ IsNumeric(SubSeq(token, k + 1, Len(token)))

\* C6, as stated: an output with fewer than 3 tokens, or whose third token
\* is not two dot-separated numeric parts, fails the check with
\* InvalidOutput.
C6_NotNDotNIsInvalid ==
  (QueryDecoded /\ (Len(QueryTokens) < 3 \/ ~IsNDotN(QueryTokens[3]))) =>
     checked = InvalidOutputError

\* C6, amended: an output with fewer than 3 tokens, or whose third token
\* does not split on '.' into exactly two parts (of whatever characters),
\* fails the check, and so spawn(), with InvalidOutput, whatever the
\* minimum version; no main process is launched.
C6_InvalidOutput ==
  (QueryDecoded /\ (Len(QueryTokens) < 3 \/ DotCount(QueryTokens[3]) # 1)) =>
     /\ checked = InvalidOutputError
     /\ version = None
     /\ ret = InvalidOutputError
     /\ pc = "idle"
     /\ ~MainLaunched

\* C6's case: a third token of three parts, with a minimum version set.
C6_Witness ==
  /\ QueryDecoded
  /\ Len(QueryTokens) = 3
  /\ DotCount(QueryTokens[3]) = 2
  /\ min_version # None
  /\ ret = InvalidOutputError

\* The two parts of a token with one '.'.
PartsAtDot(token) ==
  LET k == CHOOSE k \in 1..Len(token) : token[k] = 46 IN
  << SubSeq(token, 1, k - 1), SubSeq(token, k + 1, Len(token)) >>

RECURSIVE DecimalValue(_)
DecimalValue(s) ==
  IF s = << >> THEN 0
  ELSE DecimalValue(SubSeq(s, 1, Len(s) - 1)) * 10 + (s[Len(s)] - 48)

\* The part as a u16: digits after an optional '+', at most 65535; 0 for
\* every other part (no digits, another character, a '-', too large).
PartValue(part) ==
  LET digits == IF part # << >> /\ part[1] = 43
                THEN SubSeq(part, 2, Len(part)) ELSE part
  IN  IF IsNumeric(digits) /\ Len(digits) <= 9
         /\ DecimalValue(digits) <= 65535
      THEN DecimalValue(digits) ELSE 0

\* "abc.def"
AbcDef == Str(<< "a", "b", "c", ".", "d", "e", "f" >>)

\* C9: each of the two parts of the version token is parsed as a u16, and a
\* part that does not parse is 0; the check then goes on to the comparison
\* with the minimum and never fails for the format.  "abc.def" is (0, 0):
\* it passes without a minimum or with (0, 0), and is OldVersion above.
C9_ParseOrZero ==
  (QueryDecoded /\ Len(QueryTokens) >= 3 /\ DotCount(QueryTokens[3]) = 1) =>
     LET parts == PartsAtDot(QueryTokens[3])
         v == << PartValue(parts[1]), PartValue(parts[2]) >>
         old == /\ min_version # None
                /\ \/ v[1] < min_version[1][1]
                   \/ v[1] = min_version[1][1] /\ v[2] < min_version[1][2]
     IN  /\ version = Some(v)
         /\ checked = IF old THEN OldVersionError ELSE Ok(<< >>)
         /\ QueryTokens[3] = AbcDef =>
              /\ version = Some(<< 0, 0 >>)
              /\ min_version \in { None, Some(<< 0, 0 >>) } =>
                   checked = Ok(<< >>)
              /\ min_version \notin { None, Some(<< 0, 0 >>) } =>
                   checked = OldVersionError

\* C9's case: "dd (x) abc.def" against the minimum (0, 1).
C9_Witness ==
  /\ QueryDecoded
  /\ Len(QueryTokens) = 3
  /\ QueryTokens[3] = AbcDef
  /\ min_version = Some(<< 0, 1 >>)
  /\ version = Some(<< 0, 0 >>)
  /\ ret = OldVersionError

MissingError == Err(DdError("Missing", NoIoError))

\* C7: check() returns Missing if and only if the `--version` process could
\* not be launched; a main process that cannot be launched gives CantRun
\* with the launch error, and spawn() gives Missing only out of check().
C7_Missing ==
  /\ check_cmd = None => checked = NoResult
  /\ check_cmd # None => (checked = MissingError <=> ~check_cmd[1].launched)
  /\ (spawn_output # None /\ ~spawn_output[1].launched) =>
       /\ ret = Err(DdError("CantRun",
                            IoError(spawn_output[1].error, << >>)))
       /\ spawn_output[1].error # ""
  /\ spawn_output # None => ret # MissingError
  /\ ret = MissingError => checked = MissingError

\* C7's case: the check passed and the main process could not be launched.
C7_Witness ==
  /\ SpawnReturned
  /\ checked = Ok(<< >>)
  /\ spawn_output # None
  /\ ~spawn_output[1].launched
  /\ ret.err.kind = "CantRun"

\* C8: spawn() returns a text or one error of the closed set, never both;
\* it returns Ok if and only if the check passed, an input is set, and the
\* main process was launched, exited with success and wrote valid UTF-8 to
\* its standard output, and then the text is that output in full.
C8_Outcome ==
  SpawnReturned =>
    /\ ret.tag \in { "Ok", "Err" }
    /\ ret.tag = "Ok" => ret.err = NoDdError
    /\ ret.tag = "Err" => (ret.text = << >> /\ ret.err.kind \in ErrorKinds)
    /\ ret.tag = "Ok" <=>
         /\ checked = Ok(<< >>)
         /\ input # None
         /\ MainLaunched
         /\ spawn_output # None
         /\ spawn_output[1].launched
         /\ spawn_output[1].success
         /\ Utf8ValidFrom(spawn_output[1].stdout, 1)
    /\ ret.tag = "Ok" => ret.text = spawn_output[1].stdout

\* C8's case: input and output set, and the main process's output returned.
C8_Witness ==
  /\ SpawnReturned
  /\ input # None
  /\ output # None
  /\ ret = Ok(Str(<< "o", "u", "t", " ", "1" >>) \o << 10 >>)

InvalidUtf8Error == Err(DdError("InvalidUTF8", NoIoError))

CantRunOther(text) == Err(DdError("CantRun", IoError("Other", text)))

\* C10: a process that exits without success gives CantRun with its decoded
\* standard error; a standard error that is no UTF-8 gives InvalidUTF8 in
\* the check, but CantRun with the placeholder text in the main invocation,
\* which gives InvalidUTF8 only for the standard output of a success.
C10_StderrAsymmetry ==
  /\ (check_cmd # None /\ check_cmd[1].launched /\ ~check_cmd[1].success) =>
       checked = IF Utf8ValidFrom(check_cmd[1].stderr, 1)
                 THEN CantRunOther(check_cmd[1].stderr)
                 ELSE InvalidUtf8Error
  /\ (spawn_output # None /\ spawn_output[1].launched
        /\ ~spawn_output[1].success) =>
       ret = IF Utf8ValidFrom(spawn_output[1].stderr, 1)
             THEN CantRunOther(spawn_output[1].stderr)
             ELSE CantRunOther(Placeholder)
  /\ (SpawnReturned /\ checked = Ok(<< >>) /\ ret = InvalidUtf8Error) =>
       /\ spawn_output # None
       /\ spawn_output[1].launched
       /\ spawn_output[1].success
       /\ ~Utf8ValidFrom(spawn_output[1].stdout, 1)

\* C10's case: the main process fails and its standard error is no UTF-8.
C10_Witness ==
  /\ SpawnReturned
  /\ spawn_output # None
  /\ spawn_output[1].launched
  /\ ~spawn_output[1].success
  /\ ~Utf8ValidFrom(spawn_output[1].stderr, 1)
  /\ ret = CantRunOther(Placeholder)

====
